---- MODULE Spec2Model ----
(***************************************************************************)
(* The Zen Memory Engine: the /remember and /recall handlers of            *)
(* memory_api.py over the per-user FAISS index and JSON sidecar of         *)
(* database.py, with the embedding call of embedder.py.                    *)
(*                                                                         *)
(* A string that the code inspects character by character (an email) is a  *)
(* sequence of one-character strings; a text that the code only stores and *)
(* hands on is a TLA+ string.  The embedding API answers with a sequence   *)
(* of VECTOR_DIM integers; a float vector of numpy and FAISS is held       *)
(* exactly, as an integer vector over the square root of an integer, so    *)
(* that normalisation is exact and inner products compare exactly.         *)
(*                                                                         *)
(* The /chat handler of app.py keeps a list of messages per session in the *)
(* dictionary conversation_histories.  The Flask server of app.run gives   *)
(* each request a thread, so the statements of two /chat calls interleave; *)
(* a message text is a sequence of words.                                  *)
(***************************************************************************)
EXTENDS Integers, Sequences, FiniteSets, TLC

\* ------------------------------------------------------------------ bounds
\* Memory ids handed out in one behaviour (uuid4 calls of save_memory).
MaxSaves == 2
\* Requests accepted in one behaviour in which the steps of the handlers
\* interleave or the process dies inside a handler.
MaxRequests == 2
\* The dimension of an embedding; stands for the 384 of database.py.
VECTOR_DIM == 2
\* The limit the /recall handler passes to search_memories.
RecallLimit == 5
\* The longest string over Chars given to _sanitise_name.
MaxLen == 3
\* The entries of a session's history that /chat keeps: len(history) > 40.
HistoryMax == 40
\* The entries of the history that a prompt carries: history[-12:].
PromptWindow == 12
\* The turns the client of the session "default" takes; one more than
\* HistoryMax entries hold.
MaxChats == 21
\* The turns the client of another session takes.
MaxSideChats == 2
\* The /chat calls accepted in one behaviour while another call is under way.
MaxOverlaps == 1

\* ------------------------------------------------------------ the inputs
Workers == {"w1", "w2"}

\* The threads of the Flask server of app.py, one per request under way.
Threads == {"t1", "t2"}

\* The session ids of the /chat requests; "default" where a body names none.
SessionIds == {"default", "s1"}

\* What client.chat.completions.create does: it answers or it raises.
CompletionOutcomes == {"ok", "raises"}

\* What fetch_news returns: headlines, or "" where it could fetch none.
NewsData == {"", "headlines"}

\* "a.b@c", "a_b@c" and "b@c".
OwnerA == <<"a", ".", "b", "@", "c">>
OwnerB == <<"a", "_", "b", "@", "c">>
OwnerC == <<"b", "@", "c">>
Owners == {OwnerA, OwnerB, OwnerC}

Texts == {"hello", "Hello", "pasta"}

\* The limits a caller of search_memories passes; /recall passes RecallLimit.
Limits == {1, RecallLimit}

\* What the HuggingFace API answers: status 200 with a vector, or not 200.
ApiAnswers == {"200", "503"}

\* The wider inputs: a request may carry the empty text, and the API may also
\* answer 200 with a vector of another length or with an empty list.
AnyTexts == {"", "pasta"}
ApiReplies == ApiAnswers \cup {"200_short", "200_empty"}

\* --------------------------------------------------------------- strings
Alnum ==
    {"a","b","c","d","e","f","g","h","i","j","k","l","m","n","o","p","q",
     "r","s","t","u","v","w","x","y","z",
     "A","B","C","D","E","F","G","H","I","J","K","L","M","N","O","P","Q",
     "R","S","T","U","V","W","X","Y","Z",
     "0","1","2","3","4","5","6","7","8","9"}

\* re.sub that replaces nothing.
re_sub_kept(s) == s

\* re.sub(r"[^a-zA-Z0-9]", "_", s)
re_sub(s) == [i \in 1..Len(s) |-> IF s[i] \in Alnum THEN s[i] ELSE "_"]

RECURSIVE lstrip(_)
lstrip(s) == IF s # <<>> /\ Head(s) = "_" THEN lstrip(Tail(s)) ELSE s

RECURSIVE rstrip(_)
rstrip(s) ==
    IF s # <<>> /\ s[Len(s)] = "_" THEN rstrip(SubSeq(s, 1, Len(s) - 1)) ELSE s

\* str.strip("_")
strip(s) == rstrip(lstrip(s))

unknown == <<"u", "n", "k", "n", "o", "w", "n">>

_sanitise_name(email) ==
    LET safe == re_sub(email)
    IN  IF strip(safe) = <<>> THEN unknown ELSE strip(safe)

\* The directory name of each owner of the model, and the directories under
\* FAISS_DATA_DIR they make.
DirOf == [e \in Owners |-> _sanitise_name(e)]
Dirs == {DirOf[e] : e \in Owners}

\* The characters of the strings given to _sanitise_name: letters, a digit,
\* the underscore, separators, and "e'" for a letter outside ASCII.
Chars == {"a", "Z", "0", "_", ".", "/", "e'"}

StringsUpTo(n) == UNION {[1..k -> Chars] : k \in 0..n}

\* The arguments of _sanitise_name: every string of up to MaxLen characters,
\* the owners of the model, and two strings that spell the placeholder.
Emails ==
    StringsUpTo(MaxLen) \cup Owners \cup {unknown, <<"@">> \o unknown}

\* s.split("/")
RECURSIVE Split(_)
Split(s) ==
    IF \A i \in 1..Len(s) : s[i] # "/" THEN <<s>>
    ELSE LET i == CHOOSE j \in 1..Len(s) :
                      s[j] = "/" /\ \A k \in 1..(j - 1) : s[k] # "/"
         IN  <<SubSeq(s, 1, i - 1)>> \o Split(SubSeq(s, i + 1, Len(s)))

\* os.path.join(FAISS_DATA_DIR, name): the components of name below
\* FAISS_DATA_DIR, or, when name begins with "/", name alone.
os_path_join(name) ==
    [absolute |-> name # <<>> /\ Head(name) = "/", parts |-> Split(name)]

\* --------------------------------------------------------------- vectors
Abs(n) == IF n < 0 THEN -n ELSE n

RECURSIVE Gcd(_, _)
Gcd(a, b) == IF b = 0 THEN Abs(a) ELSE Gcd(b, a % Abs(b))

RECURSIVE GcdSeq(_)
GcdSeq(v) == IF v = <<>> THEN 0 ELSE Gcd(Head(v), GcdSeq(Tail(v)))

RECURSIVE Dot(_, _)
Dot(u, v) ==
    IF u = <<>> \/ v = <<>> THEN 0
    ELSE Head(u) * Head(v) + Dot(Tail(u), Tail(v))

\* A float vector is held exactly as num / sqrt(den2): num a sequence of
\* integers, den2 a positive integer.  np.array([vector], dtype="float32") of
\* a list of numbers:
np_array(vector) == [num |-> vector, den2 |-> 1]

\* normalize_L2 that leaves every vector as it is.
normalize_L2_skipped(x) == x

\* faiss.normalize_L2: x / |x|, a zero vector left as it is.
normalize_L2(x) ==
    LET g == GcdSeq(x.num)
        prim == [i \in 1..Len(x.num) |-> x.num[i] \div g]
    IN  IF g = 0 THEN x ELSE [num |-> prim, den2 |-> Dot(prim, prim)]

\* The sign-preserving square: x |-> sgn(x) * x^2, monotone in x.
SignedSq(x) == IF x >= 0 THEN x * x ELSE -(x * x)

\* IndexFlatIP's score of a stored vector x for the query q is the inner
\* product <x, q>; IPLess(x, y, q) is <x, q> < <y, q>, compared exactly.
IPLess(x, y, q) ==
    SignedSq(Dot(x.num, q.num)) * y.den2 < SignedSq(Dot(y.num, q.num)) * x.den2

IPEqual(x, y, q) == ~IPLess(x, y, q) /\ ~IPLess(y, x, q)

\* The response of the HuggingFace API to a text, when it answers 200: the
\* model is uncased, so "hello" and "Hello" embed alike.
ApiVector(text) ==
    CASE text = "hello" -> <<1, 1>>
      [] text = "Hello" -> <<1, 1>>
      [] text = "pasta" -> <<0, 3>>
      [] OTHER -> <<0, 0>>

\* The API's vector at the configured dimension.
Embedding(text) ==
    [i \in 1..VECTOR_DIM |->
        IF i <= Len(ApiVector(text)) THEN ApiVector(text)[i] ELSE 0]

\* ------------------------------------------------------------- the state
VARIABLES
    disk,      \* per directory: whether it exists, index.faiss and meta.json
    proc,      \* per worker: where its request stands, and its locals
    last,      \* the request answered last: who asked for what, what the
               \* embedding API answered, and the response
    nextId,    \* the memory ids handed out so far
    requests,  \* requests accepted step by step so far
    returned,  \* the records whose save_memory returned, in order of return
    sanitise,  \* a call of _sanitise_name: its argument and, once it has
               \* returned, its result and the directory path made of it
    conversation_histories,  \* app.py: per session id, its list of messages
    chat_proc, \* app.py: per thread, where its /chat call stands, and its
               \* locals; history is the list object the local refers to
               \* where that is no longer the list of the session (own)
    chat_last, \* app.py: the /chat call that last sent a prompt or
               \* returned, with the messages sent to the completion API
    overlaps   \* app.py: the /chat calls accepted so far while another call
               \* was under way

vars == <<disk, proc, last, nextId, requests, returned>>

\* What the handlers of memory_api.py never touch.
aside == <<sanitise, conversation_histories, chat_proc, chat_last, overlaps>>

allvars == <<vars, aside>>

NoReq == [op |-> "none", email |-> <<>>, text |-> "", limit |-> 0]

IdleProc ==
    [pc |-> "idle", req |-> NoReq, api |-> "", vector |-> <<>>,
     index |-> <<>>, meta |-> <<>>]

NoLast ==
    [op |-> "none", email |-> <<>>, text |-> "", limit |-> 0, api |-> "",
     status |-> "none", raised |-> "", error |-> "",
     calls |-> [embed |-> 0, store |-> 0],
     memory_id |-> 0, memories |-> <<>>]

EmptyDir ==
    [exists |-> FALSE, has_index |-> FALSE, index |-> <<>>,
     has_meta |-> FALSE, meta |-> <<>>]

\* _sanitise_name not yet called, with the argument it will be given.
NoCall(email) ==
    [email |-> email, done |-> FALSE, name |-> <<>>,
     path |-> [absolute |-> FALSE, parts |-> <<>>]]

\* conversation_histories = {} of app.py, and no /chat call answered.
NoHistories == [s \in {} |-> <<>>]

NoChat == [session_id |-> "", status |-> "none", messages |-> <<>>]

\* A thread with no /chat call under way.
IdleChat ==
    [pc |-> "idle", session_id |-> "", user_message |-> <<>>,
     augmented_message |-> <<>>, reply |-> <<>>, own |-> FALSE,
     history |-> <<>>, wrote |-> FALSE]

InitEngine ==
    /\ disk = [d \in Dirs |-> EmptyDir]
    /\ proc = [w \in Workers |-> IdleProc]
    /\ last = NoLast
    /\ nextId = 0
    /\ requests = 0
    /\ returned = <<>>

InitApp ==
    /\ conversation_histories = NoHistories
    /\ chat_proc = [t \in Threads |-> IdleChat]
    /\ chat_last = NoChat
    /\ overlaps = 0

Init ==
    /\ InitEngine
    /\ InitApp
    /\ sanitise = NoCall(<<>>)

\* ----------------------------------------------------------- embedder.py
\* The exceptions of the code, by type; NoError where none was raised.
NoError == ""
RuntimeError == "RuntimeError"
AssertionError == "AssertionError"
HTTPException == "HTTPException"

\* requests.post(HF_API_URL, ...) once it has answered: the status and the
\* JSON body, a nested list [[...]] when the status is 200.
requests_post(text, answer) ==
    CASE answer = "200" ->
           [status_code |-> 200, json |-> <<Embedding(text)>>]
      [] answer = "200_short" ->
           [status_code |-> 200,
            json |-> <<SubSeq(Embedding(text), 1, VECTOR_DIM - 1)>>]
      [] answer = "200_empty" ->
           [status_code |-> 200, json |-> <<>>]
      [] OTHER ->
           [status_code |-> 503, json |-> <<>>]

\* text_to_vector that answers a failed call with a vector of zeros.
text_to_vector_zeros(text, answer) ==
    [ok |-> TRUE, vector |-> [i \in 1..VECTOR_DIM |-> 0], raised |-> NoError]

\* text_to_vector(text) when the API gives `answer`: result[0], or the
\* RuntimeError of a status that is not 200 or of an empty result.
text_to_vector(text, answer) ==
    LET response == requests_post(text, answer)
        result == response.json
    IN  IF response.status_code # 200
        THEN [ok |-> FALSE, vector |-> <<>>, raised |-> RuntimeError]
        ELSE IF Len(result) > 0
        THEN [ok |-> TRUE, vector |-> result[1], raised |-> NoError]
        ELSE [ok |-> FALSE, vector |-> <<>>, raised |-> RuntimeError]

\* ----------------------------------------------------------- database.py
\* _user_dir that makes the directory anew, dropping the files in it.
_user_dir_recreated(dk, email) ==
    [dk EXCEPT ![DirOf[email]] =
        [exists |-> TRUE, has_index |-> FALSE, index |-> <<>>,
         has_meta |-> FALSE, meta |-> <<>>]]

\* os.makedirs(path, exist_ok=True) of _user_dir.
_user_dir(dk, email) ==
    [dk EXCEPT ![DirOf[email]].exists = TRUE]

\* faiss.read_index when index.faiss exists, else a new IndexFlatIP.
_load_index(dk, email) ==
    LET d == _user_dir(dk, email)[DirOf[email]]
    IN  IF d.has_index THEN d.index ELSE <<>>

\* json.load when meta.json exists, else [].
_load_meta(dk, email) ==
    LET d == _user_dir(dk, email)[DirOf[email]]
    IN  IF d.has_meta THEN d.meta ELSE <<>>

\* _save_index that writes no file.
_save_index_unwritten(dk, email, index) == _user_dir(dk, email)

\* faiss.write_index(index, _index_path(email))
_save_index(dk, email, index) ==
    [_user_dir(dk, email) EXCEPT
        ![DirOf[email]].has_index = TRUE,
        ![DirOf[email]].index = index]

\* _save_meta that keeps the list in memory and writes no file.
_save_meta_unwritten(dk, email, meta) == _user_dir(dk, email)

\* json.dump(meta, f) into _meta_path(email)
_save_meta(dk, email, meta) ==
    [_user_dir(dk, email) EXCEPT
        ![DirOf[email]].has_meta = TRUE,
        ![DirOf[email]].meta = meta]

\* index.add of the vector as given, not normalised.
index_add_raw(index, vector) ==
    IF Len(vector) = VECTOR_DIM
    THEN [ok |-> TRUE, index |-> Append(index, np_array(vector))]
    ELSE [ok |-> FALSE, index |-> index]

\* index.add that takes a vector of any length.
index_add_unchecked(index, vector) ==
    [ok |-> TRUE, index |-> Append(index, normalize_L2(np_array(vector)))]

\* vec = np.array([vector]); faiss.normalize_L2(vec); index.add(vec): FAISS
\* asserts that the vector has the dimension of the index.
index_add(index, vector) ==
    IF Len(vector) = VECTOR_DIM
    THEN [ok |-> TRUE, index |-> Append(index, normalize_L2(np_array(vector)))]
    ELSE [ok |-> FALSE, index |-> index]

\* meta.insert(0, ...): the record put first.
meta_insert_first(meta, memory_id, text, email) ==
    <<[id |-> memory_id, text |-> text, email |-> email]>> \o meta

\* meta.append({"id": memory_id, "text": text, "email": email})
meta_append(meta, memory_id, text, email) ==
    Append(meta, [id |-> memory_id, text |-> text, email |-> email])

\* uuid.uuid4(): an id no earlier call returned.
uuid4(n) == n + 1

\* save_memory(email, text, vector) run to its end against the disk dk, with
\* memory_id the id uuid4 gave: the disk it leaves, and the AssertionError
\* of index.add, raised before anything is written.
save_memory(dk, email, text, vector, memory_id) ==
    LET added == index_add(_load_index(dk, email), vector)
        meta == meta_append(_load_meta(dk, email), memory_id, text, email)
    IN  IF added.ok
        THEN [ok |-> TRUE, raised |-> NoError,
              disk |-> _save_meta(_save_index(dk, email, added.index),
                                  email, meta)]
        ELSE [ok |-> FALSE, raised |-> AssertionError,
              disk |-> _user_dir(dk, email)]

\* Position i ranks before position j for the unit query q: the larger inner
\* product first, the earlier position first among equals.
RanksBefore(index, q, i, j) ==
    \/ IPLess(index[j], index[i], q)
    \/ IPEqual(index[i], index[j], q) /\ i < j

\* The positions of the k best vectors among `left`, best first.
RECURSIVE TopK(_, _, _, _)
TopK(index, q, k, left) ==
    IF k = 0 \/ left = {} THEN <<>>
    ELSE LET best == CHOOSE i \in left :
                         \A j \in left \ {i} : RanksBefore(index, q, i, j)
         IN  <<best>> \o TopK(index, q, k - 1, left \ {best})

\* index.search(q, k): FAISS asserts that q has the dimension of the index
\* and that k > 0.
index_search(index, q, k) ==
    IF Len(q.num) = VECTOR_DIM /\ k > 0
    THEN [ok |-> TRUE, indices |-> TopK(index, q, k, 1..Len(index))]
    ELSE [ok |-> FALSE, indices |-> <<>>]

Min(a, b) == IF a <= b THEN a ELSE b

\* for idx in indices[0]: if 0 <= idx < len(meta): documents.append(...)
RECURSIVE documents(_, _)
documents(indices, meta) ==
    IF indices = <<>> THEN <<>>
    ELSE (IF Head(indices) <= Len(meta)
          THEN <<meta[Head(indices)].text>> ELSE <<>>)
         \o documents(Tail(indices), meta)

\* search_memories without its early return for an empty index.
search_loaded_unguarded(index, meta, query_vector, limit) ==
    LET effective_limit == Min(limit, Len(index))
        q == normalize_L2(np_array(query_vector))
        found == index_search(index, q, effective_limit)
    IN  [ok |-> found.ok, documents |-> documents(found.indices, meta),
         raised |-> IF found.ok THEN NoError ELSE AssertionError]

\* search_memories once the index and the sidecar are loaded: the documents
\* it returns, or the exception of index.search.
search_loaded(index, meta, query_vector, limit) ==
    IF Len(index) = 0
    THEN [ok |-> TRUE, documents |-> <<>>, raised |-> NoError]
    ELSE LET effective_limit == Min(limit, Len(index))
             q == normalize_L2(np_array(query_vector))
             found == index_search(index, q, effective_limit)
         IN  [ok |-> found.ok, documents |-> documents(found.indices, meta),
              raised |-> IF found.ok THEN NoError ELSE AssertionError]

\* search_memories(email, query_vector, limit) run against the disk dk.
search_memories(dk, email, query_vector, limit) ==
    search_loaded(_load_index(dk, email), _load_meta(dk, email),
                  query_vector, limit)

\* ------------------------------------------- memory_api.py, whole handlers
\* The answer to a request that called text_to_vector once and the store
\* `stores` times: RememberResponse / RecallResponse (the latter echoes
\* the request) when nothing was raised, else the handler's
\* `except Exception as e: raise HTTPException(500, detail=str(e))`, which
\* carries nothing of the request's body.
Response(op, email, text, limit, api, raised, stores, memory_id, memories) ==
    [op |-> op, email |-> email,
     text |-> IF raised = NoError THEN text ELSE "",
     limit |-> IF raised = NoError THEN limit ELSE 0,
     api |-> api,
     status |-> IF raised = NoError THEN "ok" ELSE "error",
     raised |-> raised,
     error |-> IF raised = NoError THEN NoError ELSE HTTPException,
     calls |-> [embed |-> 1, store |-> stores],
     memory_id |-> IF raised = NoError THEN memory_id ELSE 0,
     memories |-> IF raised = NoError THEN memories ELSE <<>>]

\* POST /remember, run to its end (an async handler that never awaits runs
\* alone on uvicorn's event loop) with the embedding API giving `answer`:
\* text_to_vector, save_memory, the response; any exception answers 500.
remember_with(email, text, answer) ==
    LET v == text_to_vector(text, answer)
        memory_id == uuid4(nextId)
        saved == save_memory(disk, email, text, v.vector, memory_id)
    IN  IF ~v.ok
        THEN /\ last' = Response("remember", email, text, 0, answer,
                                 v.raised, 0, 0, <<>>)
             /\ UNCHANGED <<disk, proc, nextId, requests, returned>>
        ELSE IF ~saved.ok
        THEN /\ disk' = saved.disk
             /\ last' = Response("remember", email, text, 0, answer,
                                 saved.raised, 1, 0, <<>>)
             /\ UNCHANGED <<proc, nextId, requests, returned>>
        ELSE /\ nextId < MaxSaves
             /\ nextId' = memory_id
             /\ disk' = saved.disk
             /\ returned' = Append(returned,
                    [id |-> memory_id, text |-> text, email |-> email])
             /\ last' = Response("remember", email, text, 0, answer,
                                 NoError, 1, memory_id, <<>>)
             /\ UNCHANGED <<proc, requests>>

remember(email, text) ==
    \E answer \in ApiAnswers :
        /\ remember_with(email, text, answer)
        /\ UNCHANGED aside

\* POST /recall (limit = RecallLimit), or a caller's search with its own
\* limit, run to its end: text_to_vector, search_memories, the response.
recall_with(email, query_text, limit, answer) ==
    LET v == text_to_vector(query_text, answer)
        found == search_memories(disk, email, v.vector, limit)
    IN  IF ~v.ok
        THEN /\ last' = Response("recall", email, query_text, limit, answer,
                                 v.raised, 0, 0, <<>>)
             /\ UNCHANGED <<disk, proc, nextId, requests, returned>>
        ELSE /\ disk' = _user_dir(disk, email)
             /\ last' = Response("recall", email, query_text, limit, answer,
                                 found.raised, 1, 0, found.documents)
             /\ UNCHANGED <<proc, nextId, requests, returned>>

recall(email, query_text, limit) ==
    \E answer \in ApiAnswers :
        /\ recall_with(email, query_text, limit, answer)
        /\ UNCHANGED aside

\* The same two handlers over the wider inputs.
remember_any(email, text) ==
    \E answer \in ApiReplies :
        /\ remember_with(email, text, answer)
        /\ UNCHANGED aside

recall_any(email, query_text, limit) ==
    \E answer \in ApiReplies :
        /\ recall_with(email, query_text, limit, answer)
        /\ UNCHANGED aside

\* ------------------------------------- memory_api.py, handlers step by step
InFlightIds ==
    Cardinality({w \in Workers :
        proc[w].req.op = "remember"
        /\ proc[w].pc \in {"embed", "load_index", "load_meta"}})

Respond(w, api, raised, store_calls, memory_id, memories) ==
    /\ last' = Response(proc[w].req.op, proc[w].req.email, proc[w].req.text,
                        proc[w].req.limit, api, raised, store_calls,
                        memory_id, memories)
    /\ proc' = [proc EXCEPT ![w] = IdleProc]

\* POST /remember arrives at worker w.
remember_arrives(w, email, text) ==
    /\ proc[w].pc = "idle"
    /\ UNCHANGED aside
    /\ requests < MaxRequests
    /\ nextId + InFlightIds < MaxSaves
    /\ requests' = requests + 1
    /\ proc' = [proc EXCEPT ![w].pc = "embed",
                            ![w].req = [op |-> "remember", email |-> email,
                                        text |-> text, limit |-> 0]]
    /\ UNCHANGED <<disk, last, nextId, returned>>

\* POST /recall arrives at worker w.
recall_arrives(w, email, query_text, limit) ==
    /\ proc[w].pc = "idle"
    /\ UNCHANGED aside
    /\ requests < MaxRequests
    /\ requests' = requests + 1
    /\ proc' = [proc EXCEPT ![w].pc = "embed",
                            ![w].req = [op |-> "recall", email |-> email,
                                        text |-> query_text,
                                        limit |-> limit]]
    /\ UNCHANGED <<disk, last, nextId, returned>>

\* The call of text_to_vector returns or raises; on an exception the handler
\* answers 500.
embed_step(w) ==
    /\ proc[w].pc = "embed"
    /\ UNCHANGED aside
    /\ \E answer \in ApiReplies :
         LET v == text_to_vector(proc[w].req.text, answer)
         IN  IF v.ok
             THEN /\ proc' = [proc EXCEPT ![w].pc = "load_index",
                                          ![w].api = answer,
                                          ![w].vector = v.vector]
                  /\ UNCHANGED last
             ELSE Respond(w, answer, v.raised, 0, 0, <<>>)
    /\ UNCHANGED <<disk, nextId, requests, returned>>

\* requests.post(HF_API_URL, headers=headers, json=payload) is given no
\* timeout: when the API never answers, the call never returns.
post_blocks(w) ==
    /\ proc[w].pc = "embed"
    /\ UNCHANGED aside
    /\ proc' = [proc EXCEPT ![w].pc = "blocked"]
    /\ UNCHANGED <<disk, last, nextId, requests, returned>>

\* index = _load_index(email), of save_memory and of search_memories.
load_index_step(w) ==
    /\ proc[w].pc = "load_index"
    /\ UNCHANGED aside
    /\ proc' = [proc EXCEPT ![w].pc = "load_meta",
                            ![w].index = _load_index(disk, proc[w].req.email)]
    /\ disk' = _user_dir(disk, proc[w].req.email)
    /\ UNCHANGED <<last, nextId, requests, returned>>

\* save_memory: meta = _load_meta(email), the new id, index.add, meta.append;
\* on the AssertionError of index.add the handler answers 500.
save_load_meta_step(w) ==
    /\ proc[w].pc = "load_meta"
    /\ UNCHANGED aside
    /\ proc[w].req.op = "remember"
    /\ disk' = _user_dir(disk, proc[w].req.email)
    /\ LET added == index_add(proc[w].index, proc[w].vector)
       IN  IF added.ok
           THEN /\ nextId' = uuid4(nextId)
                /\ proc' = [proc EXCEPT
                     ![w].pc = "save_index",
                     ![w].index = added.index,
                     ![w].meta =
                         meta_append(_load_meta(disk, proc[w].req.email),
                                     nextId', proc[w].req.text,
                                     proc[w].req.email)]
                /\ UNCHANGED last
           ELSE /\ Respond(w, proc[w].api, AssertionError, 1, 0, <<>>)
                /\ UNCHANGED nextId
    /\ UNCHANGED <<requests, returned>>

\* save_memory: _save_index(email, index).
save_index_step(w) ==
    /\ proc[w].pc = "save_index"
    /\ UNCHANGED aside
    /\ disk' = _save_index(disk, proc[w].req.email, proc[w].index)
    /\ proc' = [proc EXCEPT ![w].pc = "save_meta"]
    /\ UNCHANGED <<last, nextId, requests, returned>>

\* save_memory: _save_meta(email, meta) and the return of the id; the handler
\* answers "saved".
save_meta_step(w) ==
    LET rec == proc[w].meta[Len(proc[w].meta)]
    IN  /\ proc[w].pc = "save_meta"
        /\ UNCHANGED aside
        /\ disk' = _save_meta(disk, proc[w].req.email, proc[w].meta)
        /\ returned' = Append(returned, rec)
        /\ Respond(w, proc[w].api, NoError, 1, rec.id, <<>>)
        /\ UNCHANGED <<nextId, requests>>

\* search_memories: meta = _load_meta(email), the search and the return; the
\* handler answers with the memories.
search_load_meta_step(w) ==
    /\ proc[w].pc = "load_meta"
    /\ UNCHANGED aside
    /\ proc[w].req.op = "recall"
    /\ disk' = _user_dir(disk, proc[w].req.email)
    /\ LET found == search_loaded(proc[w].index,
                                  _load_meta(disk, proc[w].req.email),
                                  proc[w].vector, proc[w].req.limit)
       IN  Respond(w, proc[w].api, found.raised, 1, 0, found.documents)
    /\ UNCHANGED <<nextId, requests, returned>>

\* The process dies and starts again: what the workers held is gone, the
\* files stay.
Restart ==
    /\ (last # NoLast \/ ~(\A w \in Workers : proc[w].pc = "idle"))
    /\ UNCHANGED aside
    /\ proc' = [w \in Workers |-> IdleProc]
    /\ last' = NoLast
    /\ UNCHANGED <<disk, nextId, requests, returned>>

\* path = os.path.join(FAISS_DATA_DIR, _sanitise_name(email)) of _user_dir.
sanitise_step ==
    /\ ~sanitise.done
    /\ sanitise' = [sanitise EXCEPT
          !.done = TRUE,
          !.name = _sanitise_name(sanitise.email),
          !.path = os_path_join(_sanitise_name(sanitise.email))]
    /\ UNCHANGED <<vars, conversation_histories, chat_proc, chat_last,
                   overlaps>>

\* ----------------------------------------------------------------- app.py
\* A message text is a sequence of words; " " is a blank.
\* str.strip(): the blanks at both ends removed.
RECURSIVE str_strip(_)
str_strip(m) ==
    IF m # <<>> /\ Head(m) = " " THEN str_strip(Tail(m))
    ELSE IF m # <<>> /\ m[Len(m)] = " "
         THEN str_strip(SubSeq(m, 1, Len(m) - 1))
         ELSE m

\* re.search of the news patterns in the message.
is_news_query(message) ==
    \E i \in 1..Len(message) : message[i] \in {"news", "latest", "today"}

SYSTEM_PROMPT == <<"ZEN AI">>

NEWS_DATA == "[NEWS DATA]"

\* {"role": role, "content": content}
Message(role, content) == [role |-> role, content |-> content]

\* list[-n:]
LastN(list, n) == SubSeq(list, Len(list) - Min(n, Len(list)) + 1, Len(list))

\* conversation_histories.get(s, []): the history kept for session s.
HistoryOf(s) ==
    IF s \in DOMAIN conversation_histories
    THEN conversation_histories[s] ELSE <<>>

\* The client of a session numbers its messages: a text names its session
\* and its turn, one past the turn of the last entry kept, and asks for the
\* news on every second turn.
MaxTurns(s) == IF s = "default" THEN MaxChats ELSE MaxSideChats

TurnOf(entry) == CHOOSE n \in 1..MaxChats : ToString(n) = entry.content[2]

NextTurn(history) ==
    IF history = <<>> THEN 1 ELSE TurnOf(history[Len(history)]) + 1

ClientText(s, n) ==
    <<s, ToString(n)>> \o (IF n % 2 = 0 THEN <<"news">> ELSE <<>>)

\* body.get("message", ""): empty, blank, or the next text with blanks
\* around it.
ClientMessages(s) ==
    {<<>>, <<" ">>} \cup
    (IF NextTurn(HistoryOf(s)) <= MaxTurns(s)
     THEN {<<" ">> \o ClientText(s, NextTurn(HistoryOf(s))) \o <<" ">>}
     ELSE {})

\* groq_response.choices[0].message.content: the answer to the last message
\* of the prompt.
completions_create(messages) ==
    SubSeq(messages[Len(messages)].content, 1, 2) \o <<"reply">>

\* The list object that the local `history` of thread t refers to.
Hist(t) ==
    IF chat_proc[t].own THEN chat_proc[t].history
    ELSE conversation_histories[chat_proc[t].session_id]

\* Where a thread uses its local `history`.
Holding == {"create", "append_user", "append_assistant", "len", "trim"}

\* conversation_histories[s] = list
Put(s, list) ==
    [x \in DOMAIN conversation_histories \cup {s} |->
        IF x = s THEN list ELSE conversation_histories[x]]

\* The locals after thread t binds session s to a new list: another thread
\* whose `history` is the list bound until now keeps that list object.
Rebound(t, s) ==
    [u \in Threads |->
        IF /\ u # t
           /\ chat_proc[u].session_id = s
           /\ chat_proc[u].pc \in Holding
           /\ ~chat_proc[u].own
        THEN [chat_proc[u] EXCEPT !.own = TRUE,
                                  !.history = conversation_histories[s]]
        ELSE chat_proc[u]]

\* history.append(entry) by thread t.
list_append(t, entry, pc) ==
    IF chat_proc[t].own
    THEN /\ chat_proc' = [chat_proc EXCEPT
               ![t].history = Append(@, entry), ![t].pc = pc]
         /\ UNCHANGED conversation_histories
    ELSE /\ conversation_histories' = [conversation_histories EXCEPT
               ![chat_proc[t].session_id] = Append(@, entry)]
         /\ chat_proc' = [chat_proc EXCEPT ![t].pc = pc]

\* No /chat call is under way.
ChatIdle == \A t \in Threads : chat_proc[t].pc = "idle"

\* chat(), lines 168-177: the body is read; an empty message is answered at
\* once; else the session is looked up in conversation_histories.
chat_arrives(t, s, m) ==
    /\ chat_proc[t].pc = "idle"
    /\ IF str_strip(m) = <<>>
       THEN /\ chat_last' = [session_id |-> s,
                             status |-> "empty", messages |-> <<>>]
            /\ UNCHANGED <<chat_proc, overlaps>>
       ELSE /\ chat_proc' = [chat_proc EXCEPT ![t] = [IdleChat EXCEPT
                  !.pc = IF s \in DOMAIN conversation_histories
                         THEN "take" ELSE "init",
                  !.session_id = s,
                  !.user_message = str_strip(m)]]
            /\ overlaps' = IF ChatIdle THEN overlaps ELSE overlaps + 1
            /\ overlaps' <= MaxOverlaps
            /\ UNCHANGED chat_last
    /\ UNCHANGED <<conversation_histories, vars, sanitise>>

\* line 178: conversation_histories[session_id] = []
init_history(t) ==
    /\ chat_proc[t].pc = "init"
    /\ conversation_histories' = Put(chat_proc[t].session_id, <<>>)
    /\ chat_proc' = [Rebound(t, chat_proc[t].session_id) EXCEPT
          ![t].pc = "take",
          ![t].wrote = HistoryOf(chat_proc[t].session_id) # <<>>]
    /\ UNCHANGED <<chat_last, overlaps, vars, sanitise>>

\* lines 179-195: history = conversation_histories[session_id], and the news
\* fetched for a news query are added to the message.
take_history(t, news_data) ==
    /\ chat_proc[t].pc = "take"
    /\ chat_proc' = [chat_proc EXCEPT
          ![t].pc = "create",
          ![t].own = FALSE,
          ![t].history = <<>>,
          ![t].augmented_message =
              IF is_news_query(chat_proc[t].user_message) /\ news_data # ""
              THEN chat_proc[t].user_message \o <<NEWS_DATA, news_data>>
              ELSE chat_proc[t].user_message]
    /\ UNCHANGED <<conversation_histories, chat_last, overlaps, vars, sanitise>>

\* lines 198-200: the messages for the completion API.
messages_for(t) ==
    <<Message("system", SYSTEM_PROMPT)>>
        \o LastN(Hist(t), PromptWindow)
        \o <<Message("user", chat_proc[t].augmented_message)>>

\* lines 198-210 and 222-223: the prompt is built and sent; the API answers,
\* or it raises and the handler answers with the error.
create_step(t, outcome) ==
    /\ chat_proc[t].pc = "create"
    /\ chat_last' = [session_id |-> chat_proc[t].session_id,
                     status |-> IF outcome = "ok" THEN "sent" ELSE "error",
                     messages |-> messages_for(t)]
    /\ chat_proc' = [chat_proc EXCEPT ![t] =
          IF outcome = "ok"
          THEN [@ EXCEPT !.pc = "append_user",
                         !.reply = completions_create(messages_for(t))]
          ELSE IdleChat]
    /\ UNCHANGED <<conversation_histories, overlaps, vars, sanitise>>

\* line 213: history.append({"role": "user", "content": user_message})
append_user(t) ==
    /\ chat_proc[t].pc = "append_user"
    /\ list_append(t, Message("user", chat_proc[t].user_message),
                   "append_assistant")
    /\ UNCHANGED <<chat_last, overlaps, vars, sanitise>>

\* line 214: history.append({"role": "assistant", "content": reply})
append_assistant(t) ==
    /\ chat_proc[t].pc = "append_assistant"
    /\ list_append(t, Message("assistant", chat_proc[t].reply), "len")
    /\ UNCHANGED <<chat_last, overlaps, vars, sanitise>>

\* line 217: if len(history) > 40
check_length(t) ==
    /\ chat_proc[t].pc = "len"
    /\ chat_proc' = [chat_proc EXCEPT ![t] =
          IF Len(Hist(t)) > HistoryMax
          THEN [@ EXCEPT !.pc = "trim"]
          ELSE [@ EXCEPT !.pc = "return", !.own = FALSE, !.history = <<>>]]
    /\ UNCHANGED <<conversation_histories, chat_last, overlaps, vars, sanitise>>

\* line 218: conversation_histories[session_id] = history[-40:]
trim_history(t) ==
    /\ chat_proc[t].pc = "trim"
    /\ conversation_histories' =
          Put(chat_proc[t].session_id, LastN(Hist(t), HistoryMax))
    /\ chat_proc' = [Rebound(t, chat_proc[t].session_id) EXCEPT
          ![t].pc = "return", ![t].own = FALSE, ![t].history = <<>>]
    /\ UNCHANGED <<chat_last, overlaps, vars, sanitise>>

\* line 220: return jsonify({"response": reply})
chat_returns(t) ==
    /\ chat_proc[t].pc = "return"
    /\ chat_last' = [session_id |-> chat_proc[t].session_id,
                     status |-> "ok", messages |-> <<>>]
    /\ chat_proc' = [chat_proc EXCEPT ![t] = IdleChat]
    /\ UNCHANGED <<conversation_histories, overlaps, vars, sanitise>>

\* ------------------------------------------------------ the specifications
AllIdle == \A w \in Workers : proc[w].pc = "idle"

\* One uvicorn process: each handler runs to its end before the next starts,
\* and the process restarts between requests.
Next ==
    \/ \E e \in Owners, t \in Texts : remember(e, t)
    \/ \E e \in Owners, t \in Texts, k \in Limits : recall(e, t, k)
    \/ Restart

Spec == Init /\ [][Next]_vars

\* The steps of a request under way at worker w.
Proceed(w) ==
    \/ embed_step(w)
    \/ post_blocks(w)
    \/ load_index_step(w)
    \/ save_load_meta_step(w)
    \/ save_index_step(w)
    \/ save_meta_step(w)
    \/ search_load_meta_step(w)

\* Several worker processes over the same data directory: the steps of their
\* handlers interleave.
NextConc ==
    \E w \in Workers :
        \/ \E e \in Owners, t \in Texts : remember_arrives(w, e, t)
        \/ \E e \in Owners, t \in Texts, k \in Limits :
               recall_arrives(w, e, t, k)
        \/ Proceed(w)

SpecConc == Init /\ [][NextConc]_vars

\* One request at a time, and the process may die at any point of it.
NextCrash ==
    \/ \E w \in Workers :
        \/ \E e \in Owners, t \in Texts :
               AllIdle /\ remember_arrives(w, e, t)
        \/ \E e \in Owners, t \in Texts, k \in Limits :
               AllIdle /\ recall_arrives(w, e, t, k)
        \/ Proceed(w)
    \/ Restart

SpecCrash == Init /\ [][NextCrash]_vars

\* One uvicorn process over the wider inputs, each handler run to its end.
NextAny ==
    \/ \E e \in Owners, t \in AnyTexts : remember_any(e, t)
    \/ \E e \in Owners, t \in AnyTexts, k \in Limits : recall_any(e, t, k)
    \/ Restart

SpecAny == Init /\ [][NextAny]_vars

\* _sanitise_name called once, with any of the arguments.
InitName ==
    /\ InitEngine
    /\ InitApp
    /\ \E email \in Emails : sanitise = NoCall(email)

NextName == sanitise_step

SpecName == InitName /\ [][NextName]_allvars

\* The steps of a /chat call under way at thread t.
ChatStep(t) ==
    \/ init_history(t)
    \/ \E news_data \in NewsData : take_history(t, news_data)
    \/ \E outcome \in CompletionOutcomes : create_step(t, outcome)
    \/ append_user(t)
    \/ append_assistant(t)
    \/ check_length(t)
    \/ trim_history(t)
    \/ chat_returns(t)

\* The Flask server of app.run: a thread per request, so that the steps of
\* two /chat calls interleave.
NextChat ==
    \E t \in Threads :
        \/ \E s \in SessionIds : \E m \in ClientMessages(s) :
               chat_arrives(t, s, m)
        \/ ChatStep(t)

SpecChat == Init /\ [][NextChat]_allvars

\* The same server with one /chat call under way at a time.
NextChatSerial ==
    \E t \in Threads :
        \/ \E s \in SessionIds : \E m \in ClientMessages(s) :
               ChatIdle /\ chat_arrives(t, s, m)
        \/ ChatStep(t)

SpecChatSerial == Init /\ [][NextChatSerial]_allvars

\* The worker processes keep running: a request under way that can take a
\* step takes one.
SpecLive == SpecConc /\ \A w \in Workers : WF_vars(Proceed(w))

\* ------------------------------------------------------------ the claims
\* What the files of an owner's partition hold.
IndexOf(email) == _load_index(disk, email)
MetaOf(email) == _load_meta(disk, email)

\* The stored form of a text's embedding.
StoredVector(text) == normalize_L2(np_array(Embedding(text)))

\* C1: a text a recall returns to an owner was stored by a remember of that
\* same owner: no text stored only under another owner is ever returned.
C1_Isolation ==
    (last.op = "recall" /\ last.status = "ok") =>
        \A i \in 1..Len(last.memories) :
            \E j \in 1..Len(returned) :
                /\ returned[j].email = last.email
                /\ returned[j].text = last.memories[i]

\* C2: every record whose remember has returned is in the sidecar, and its
\* vector in the index, that a later recall for its owner loads.
C2_ReturnedVisible ==
    \A j \in 1..Len(returned) :
        /\ \E i \in 1..Len(MetaOf(returned[j].email)) :
               MetaOf(returned[j].email)[i] = returned[j]
        /\ \E i \in 1..Len(IndexOf(returned[j].email)) :
               IndexOf(returned[j].email)[i] = StoredVector(returned[j].text)

\* Sidecar and index of directory d agree: as many entries as vectors, and
\* entry i is the text whose vector is at position i.
Aligned(d) ==
    /\ Len(disk[d].index) = Len(disk[d].meta)
    /\ \A i \in 1..Len(disk[d].meta) :
           disk[d].index[i] = StoredVector(disk[d].meta[i].text)

\* C3: once every save_memory has returned, also after overlapping ones,
\* each owner's index and sidecar agree.
C3_AlignedWhenQuiet == AllIdle => \A d \in Dirs : Aligned(d)

\* The records returned for the owners of directory d, in order of return.
ReturnedOf(d) == SelectSeq(returned, LAMBDA r : DirOf[r.email] = d)

\* C4: what a process that starts again loads from the files alone is the
\* records whose save_memory returned, all of them and in their order, and a
\* recall searches exactly those.
C4_RestartDurable ==
    /\ \A e \in Owners :
         /\ MetaOf(e) = ReturnedOf(DirOf[e])
         /\ IndexOf(e) = [i \in 1..Len(ReturnedOf(DirOf[e])) |->
                             StoredVector(ReturnedOf(DirOf[e])[i].text)]
    /\ (last.op = "recall" /\ last.status = "ok") =>
         last.memories =
           search_loaded(
             [i \in 1..Len(ReturnedOf(DirOf[last.email])) |->
                 StoredVector(ReturnedOf(DirOf[last.email])[i].text)],
             ReturnedOf(DirOf[last.email]),
             Embedding(last.text), last.limit).documents

\* The process has just started again with two or more records on disk.
C4_Witness ==
    /\ last = NoLast
    /\ AllIdle
    /\ \E d \in Dirs : Len(ReturnedOf(d)) >= 2

\* C5: a recall whose embedding call succeeded, for an owner whose partition
\* holds no vector (a directory never seen included), answers with the empty
\* sequence and not with an error.
C5_EmptyRecall ==
    (last.op = "recall" /\ last.api = "200" /\ Len(IndexOf(last.email)) = 0)
        => (last.status = "ok" /\ last.memories = <<>>)

\* A recall for a directory that did not exist answered with no memory, while
\* another owner has records.
C5_Witness ==
    /\ last.op = "recall"
    /\ last.status = "ok"
    /\ last.memories = <<>>
    /\ ~disk[DirOf[last.email]].has_index
    /\ \E d \in Dirs : Len(disk[d].meta) >= 1

\* Cosine similarity of the integer vectors u and v to q, compared exactly:
\* cos(u, q) < cos(v, q).  A zero vector has similarity 0.
NormSq(u) == IF Dot(u, u) = 0 THEN 1 ELSE Dot(u, u)

CosLess(u, v, q) ==
    SignedSq(Dot(u, q)) * NormSq(v) < SignedSq(Dot(v, q)) * NormSq(u)

\* The texts docs are those of the records at the positions S of meta.
TextsOf(docs, S, meta) ==
    \E f \in [1..Len(docs) -> S] :
        /\ \A i, j \in 1..Len(docs) : i # j => f[i] # f[j]
        /\ \A i \in 1..Len(docs) : meta[f[i]].text = docs[i]

\* C6: a search with limit k over n records returns min(k, n) texts, in
\* non-increasing order of cosine similarity to the query, and no record left
\* out is strictly more similar than one returned.
C6_TopK ==
    (last.op = "recall" /\ last.status = "ok") =>
        LET meta == MetaOf(last.email)
            n == Len(meta)
            docs == last.memories
            q == Embedding(last.text)
        IN  /\ Len(docs) = Min(last.limit, n)
            /\ \A i, j \in 1..Len(docs) :
                 i < j => ~CosLess(Embedding(docs[i]), Embedding(docs[j]), q)
            /\ \E S \in SUBSET (1..n) :
                 /\ Cardinality(S) = Len(docs)
                 /\ TextsOf(docs, S, meta)
                 /\ \A s \in S, p \in (1..n) \ S :
                      ~CosLess(Embedding(meta[s].text),
                               Embedding(meta[p].text), q)

\* A search with limit 1 over two records, the second of them the more
\* similar, and one over fewer records than the limit.
C6_Witness ==
    /\ last.op = "recall"
    /\ last.status = "ok"
    /\ last.limit = 1
    /\ Len(MetaOf(last.email)) = 2
    /\ CosLess(Embedding(MetaOf(last.email)[1].text),
               Embedding(MetaOf(last.email)[2].text), Embedding(last.text))
    /\ last.memories = <<MetaOf(last.email)[2].text>>

\* The request that returned last is a successful remember(e, t).
JustRemembered(e, t) ==
    /\ last.op = "remember"
    /\ last.status = "ok"
    /\ last.email = e
    /\ last.text = t

\* C7 as claimed: remember(e, t) followed at once by recall(e, t, 1) returns
\* a sequence whose first element is t.
C7_TopIsText ==
    [][\A e \in Owners, t \in Texts :
          (JustRemembered(e, t) /\ recall_with(e, t, 1, "200")) =>
              /\ last'.status = "ok"
              /\ Len(last'.memories) >= 1
              /\ last'.memories[1] = t]_vars

\* C7 as amended: remember(e, t) followed at once by recall(e, t, 1) returns
\* one text, that of a record of the partition as similar to t as t is to
\* itself: t, or the text of a record stored before it.
C7_TopIsMostSimilar ==
    [][\A e \in Owners, t \in Texts :
          (JustRemembered(e, t) /\ recall_with(e, t, 1, "200")) =>
              /\ last'.status = "ok"
              /\ Len(last'.memories) = 1
              /\ ~CosLess(Embedding(last'.memories[1]), Embedding(t),
                          Embedding(t))
              /\ \/ last'.memories[1] = t
                 \/ \E i \in 1..(Len(MetaOf(e)) - 1) :
                        MetaOf(e)[i].text = last'.memories[1]]_vars

\* recall("hello", 1) right after remember("hello") answered "Hello", stored
\* before it with the same embedding.
C7_Witness ==
    /\ last.op = "recall"
    /\ last.status = "ok"
    /\ last.limit = 1
    /\ last.text = "hello"
    /\ last.memories = <<"Hello">>
    /\ Len(MetaOf(last.email)) = 2
    /\ MetaOf(last.email)[2].text = "hello"
    /\ MetaOf(last.email)[2].id = nextId

\* C8: a recall leaves index and sidecar of every owner as they were, and a
\* recall repeated with nothing in between answers as the first did.
C8_RecallIdempotent ==
    [][(/\ last'.op = "recall"
        /\ recall_with(last'.email, last'.text, last'.limit, last'.api)) =>
           /\ \A d \in Dirs :
                /\ disk'[d].has_index = disk[d].has_index
                /\ disk'[d].index = disk[d].index
                /\ disk'[d].has_meta = disk[d].has_meta
                /\ disk'[d].meta = disk[d].meta
           /\ (/\ last.op = "recall"
               /\ last.status = "ok"
               /\ last.email = last'.email
               /\ last.text = last'.text
               /\ last.limit = last'.limit
               /\ last'.status = "ok")
              => last'.memories = last.memories]_vars

\* A recall answered with two memories.
C8_Witness ==
    /\ last.op = "recall"
    /\ last.status = "ok"
    /\ Len(last.memories) >= 2

\* The ids of all records on disk.
AllIds == UNION {{disk[d].meta[i].id : i \in 1..Len(disk[d].meta)} : d \in Dirs}

IsPrefix(s, t) == Len(s) <= Len(t) /\ SubSeq(t, 1, Len(s)) = s

\* The step is a remember that answers "saved".
RememberSaves ==
    /\ last'.op = "remember"
    /\ last'.status = "ok"
    /\ remember_with(last'.email, last'.text, "200")

\* C9: no step changes or removes a stored record; a successful remember adds
\* exactly one record, at the end of its owner's list, with an id no record
\* has; no other step adds one.
C9_AppendOnly ==
    [][/\ \A d \in Dirs : IsPrefix(disk[d].meta, disk'[d].meta)
       /\ IF RememberSaves
          THEN LET d == DirOf[last'.email]
                   n == Len(disk'[d].meta)
               IN  /\ n = Len(disk[d].meta) + 1
                   /\ disk'[d].meta[n].text = last'.text
                   /\ disk'[d].meta[n].id \notin AllIds
                   /\ \A o \in Dirs \ {d} : disk'[o].meta = disk[o].meta
          ELSE \A d \in Dirs : disk'[d].meta = disk[d].meta]_vars

\* Two records of one owner on disk, the second stored last.
C9_Witness ==
    /\ last.op = "remember"
    /\ last.status = "ok"
    /\ Len(MetaOf(last.email)) = 2
    /\ MetaOf(last.email)[2].id = last.memory_id
    /\ MetaOf(last.email)[1].id # last.memory_id

\* C10: a request that returned a result, and no error, found its owner's
\* sidecar as long as the index.
C10_CorruptedFailsLoudly ==
    (AllIdle /\ last.status = "ok") =>
        Len(IndexOf(last.email)) = Len(MetaOf(last.email))

\* Index and sidecar files of every directory are after the step what they
\* were before it.
FilesUnchanged ==
    \A d \in Dirs :
        /\ disk'[d].has_index = disk[d].has_index
        /\ disk'[d].index = disk[d].index
        /\ disk'[d].has_meta = disk[d].has_meta
        /\ disk'[d].meta = disk[d].meta

\* C11: a remember whose embedding has another length than VECTOR_DIM calls
\* save_memory, which raises: the handler answers with an error and no index
\* or sidecar file changes; every vector in an index file has VECTOR_DIM
\* components.
C11_DimensionChecked ==
    [][/\ \A d \in Dirs : \A i \in 1..Len(disk'[d].index) :
              Len(disk'[d].index[i].num) = VECTOR_DIM
       /\ (last'.op = "remember" /\ last'.api = "200_short") =>
              /\ last'.status = "error"
              /\ last'.calls.store = 1
              /\ FilesUnchanged]_vars

\* A remember with a short vector was refused for an owner who has a record.
C11_Witness ==
    /\ last.op = "remember"
    /\ last.api = "200_short"
    /\ last.status = "error"
    /\ last.raised = AssertionError
    /\ Len(IndexOf(last.email)) >= 1

\* C12: no remember of the empty text answers "saved", and no sidecar holds a
\* record whose text is empty.
C12_EmptyTextRejected ==
    /\ (last.op = "remember" /\ last.status = "ok") => last.text # ""
    /\ \A d \in Dirs : \A i \in 1..Len(disk[d].meta) :
           disk[d].meta[i].text # ""

\* C13: what the embedder or the store raised is what the caller gets, as an
\* error of the type raised; a failed embedding call is never answered with
\* a result; each dependency is called at most once per request.
C13_ErrorsPropagate ==
    /\ last.raised # NoError => last.error = last.raised
    /\ last.api \in {"503", "200_empty"} => last.status = "error"
    /\ last.calls.embed <= 1
    /\ last.calls.store <= 1

\* C14: every request under way is answered in the end.
C14_EventuallyReturns ==
    \A w \in Workers : (proc[w].pc # "idle") ~> (proc[w].pc = "idle")

\* C15: while a request is in the embedding call, and the bound on requests
\* allows one more, the process can take up a recall for an owner of another
\* directory.
C15_OtherOwnerProceeds ==
    \A w \in Workers :
        (proc[w].pc \in {"embed", "blocked"} /\ requests < MaxRequests) =>
            \E v \in Workers \ {w}, e \in Owners :
                /\ DirOf[e] # DirOf[proc[w].req.email]
                /\ ENABLED (AllIdle /\ recall_arrives(v, e, "hello",
                                                      RecallLimit))

\* C16: a directory exists only when a save_memory for one of its owners was
\* called (in Spec every save_memory called returns).
C16_PartitionOnFirstWrite ==
    \A d \in Dirs :
        disk[d].exists => \E j \in 1..Len(returned) : DirOf[returned[j].email] = d

\* C17: for every owner the sidecar has as many entries as the index has
\* vectors, entry i holds the text whose normalised embedding is vector i, and
\* the texts a recall returned are the sidecar's entries at the positions the
\* search of the index gives.
C17_SidecarMatchesIndex ==
    /\ \A e \in Owners :
         /\ Len(MetaOf(e)) = Len(IndexOf(e))
         /\ \A i \in 1..Len(MetaOf(e)) :
                IndexOf(e)[i] = StoredVector(MetaOf(e)[i].text)
    /\ (last.op = "recall" /\ last.status = "ok"
            /\ Len(IndexOf(last.email)) > 0) =>
         LET index == IndexOf(last.email)
             meta == MetaOf(last.email)
             found == index_search(index, StoredVector(last.text),
                                   Min(last.limit, Len(index)))
         IN  /\ Len(last.memories) = Len(found.indices)
             /\ \A i \in 1..Len(found.indices) :
                  /\ found.indices[i] \in 1..Len(meta)
                  /\ last.memories[i] = meta[found.indices[i]].text

\* A recall over two records of different texts returned the second first.
C17_Witness ==
    /\ last.op = "recall"
    /\ last.status = "ok"
    /\ Len(MetaOf(last.email)) = 2
    /\ MetaOf(last.email)[1].text # MetaOf(last.email)[2].text
    /\ last.memories = <<MetaOf(last.email)[2].text,
                         MetaOf(last.email)[1].text>>

\* C18: a remember whose text_to_vector raised (a status that is not 200, or
\* an empty result) answers with an error, has not called save_memory, and
\* leaves every index and sidecar file and the records returned as they were.
C18_EmbedFailureStoresNothing ==
    [][(last'.op = "remember" /\ last'.api \in {"503", "200_empty"}) =>
           /\ last'.status = "error"
           /\ last'.raised = RuntimeError
           /\ last'.calls.store = 0
           /\ FilesUnchanged
           /\ returned' = returned
           /\ nextId' = nextId]_vars

\* A remember failed in the embedding call while records are on disk.
C18_Witness ==
    /\ last.op = "remember"
    /\ last.api = "200_empty"
    /\ last.status = "error"
    /\ last.calls.store = 0
    /\ \E d \in Dirs : Len(disk[d].meta) >= 1

\* C19: a remember that answered "saved" to owner A leaves what every other
\* owner's partition holds as it was.
C19_RememberFrame ==
    [][(last'.op = "remember" /\ last'.status = "ok"
            /\ remember_with(last'.email, last'.text, "200")) =>
           \A b \in Owners \ {last'.email} :
               /\ _load_meta(disk', b) = _load_meta(disk, b)
               /\ _load_index(disk', b) = _load_index(disk, b)]_vars

\* C20: whenever no request is under way, also after the process died inside
\* save_memory, every directory has both files or neither, with as many
\* vectors as records.
C20_CrashAtomic ==
    AllIdle =>
        \A d \in Dirs :
            /\ disk[d].has_index = disk[d].has_meta
            /\ Len(disk[d].index) = Len(disk[d].meta)

\* The string has a character of [a-zA-Z0-9].
HasAlnum(s) == \E i \in 1..Len(s) : s[i] \in Alnum

\* The characters of [a-zA-Z0-9] of the string, in their order.
AlnumOf(s) == SelectSeq(s, LAMBDA c : c \in Alnum)

\* A non-empty name of ASCII letters, digits and underscores that neither
\* begins nor ends with an underscore.
SafeName(name) ==
    /\ name # <<>>
    /\ \A i \in 1..Len(name) : name[i] \in Alnum \cup {"_"}
    /\ Head(name) # "_"
    /\ name[Len(name)] # "_"

\* The path names a directory directly inside FAISS_DATA_DIR.
DirectChild(path) ==
    /\ ~path.absolute
    /\ Len(path.parts) = 1
    /\ path.parts[1] \notin {<<>>, <<".">>, <<".", ".">>}

\* C21 as stated: the name is safe, it is the placeholder exactly when the
\* argument has no character of [a-zA-Z0-9], and the directory is a direct
\* child of the data directory.
C21_PlaceholderIffNoAlnum ==
    sanitise.done =>
        /\ SafeName(sanitise.name)
        /\ (sanitise.name = unknown) <=> ~HasAlnum(sanitise.email)
        /\ DirectChild(sanitise.path)

\* C21, amended: the name is safe; it is the placeholder whenever the argument
\* has no character of [a-zA-Z0-9], and otherwise only when the argument's
\* letters and digits spell the placeholder; the directory is a direct child
\* of the data directory.
C21_SafeName ==
    sanitise.done =>
        /\ SafeName(sanitise.name)
        /\ ~HasAlnum(sanitise.email) => sanitise.name = unknown
        /\ (HasAlnum(sanitise.email) /\ sanitise.name = unknown) =>
               AlnumOf(sanitise.email) = unknown
        /\ HasAlnum(sanitise.email) =>
               AlnumOf(sanitise.name) = AlnumOf(sanitise.email)
        /\ DirectChild(sanitise.path)

\* _sanitise_name has answered "../" with the placeholder.
C21_Witness ==
    /\ sanitise.done
    /\ sanitise.email = <<".", ".", "/">>
    /\ sanitise.name = unknown

\* Every session's history has at most HistoryMax entries.
HistoryBounded ==
    \A s \in DOMAIN conversation_histories :
        Len(conversation_histories[s]) <= HistoryMax

\* A /chat call returns in this step: a call under way, or one with an empty
\* message.
ChatCompletes ==
    \/ \E t \in Threads : chat_proc[t].pc # "idle" /\ chat_proc'[t].pc = "idle"
    \/ chat_last' # chat_last /\ chat_last'.status = "empty"

\* After each /chat call that returns, no history has more than 40 entries.
KeptBounded == ChatCompletes => HistoryBounded'

\* The messages of the prompt sent in this step between the system prompt
\* and the user's message.
PromptHistory == SubSeq(chat_last'.messages, 2, Len(chat_last'.messages) - 1)

\* The prompt a call sends carries at most 12 entries, and they are the most
\* recent entries of the history of its session.
PromptRecent ==
    \A t \in Threads :
        chat_proc[t].pc = "create" /\ chat_proc'[t].pc # "create" =>
            /\ Len(PromptHistory) <= PromptWindow
            /\ PromptHistory =
                   LastN(HistoryOf(chat_proc[t].session_id), Len(PromptHistory))

\* A call whose completion request raises has changed no entry of the
\* history of its session, and changes none as it returns.
FailureKeepsHistory ==
    \A t \in Threads :
        chat_proc[t].pc = "create" /\ chat_proc'[t].pc = "idle" =>
            /\ ~chat_proc[t].wrote
            /\ conversation_histories' = conversation_histories

\* C22: after every completed /chat call the history kept for a session has
\* at most 40 entries; the prompt sent to the completion API carries at most
\* the 12 most recent entries of the history of that session; and a call
\* whose completion request fails leaves the history of its session
\* unchanged.
C22_ChatHistoryBounded ==
    [][KeptBounded /\ PromptRecent /\ FailureKeepsHistory]_allvars

====
